---- MODULE Spec2Model ----
(***************************************************************************)
(* Model of src/RetailAnalyticsDashboard.jsx: the cleaning pipeline        *)
(* (performETL), the filter layer, the KPI calculator and the aggregations *)
(* of the RetailAnalyticsDashboard component, with React's useState and    *)
(* useMemo hooks.                                                          *)
(*                                                                         *)
(* Numbers.  Money fields (revenue, cost, profit) are integers counting    *)
(* hundredths: 1050 stands for the JS number 10.50.  The inputs used are   *)
(* multiples of 0.5, which binary floating point represents exactly, so    *)
(* the sums the code forms are exact in the code as they are here.         *)
(* A quotient is kept as numerator and denominator until the code compares *)
(* it or formats it with toFixed.                                          *)
(* Dates.  row.date is the ISO string "YYYY-MM-DD", written here as the    *)
(* tuple <<YYYY, MM, DD>>.  The inputs used fall in the middle of a month, *)
(* where the local date of new Date(row.date) has the same month in every  *)
(* time zone.                                                              *)
(***************************************************************************)
EXTENDS Integers, Sequences, FiniteSets, TLC

VARIABLES
    rawData,          \* useMemo(() => generateRawData(), [])
    locale,           \* the host's default locale, read by toLocaleString
    pc,               \* position inside the first render
    cleanedData,      \* performETL's local working set, then the memoized cleaned set
    etlLog,           \* performETL's counters
    activeTab,        \* useState('overview')
    selectedRegion,   \* useState('All')
    selectedCategory, \* useState('All')
    filteredData,     \* useMemo, deps [cleanedData, selectedRegion, selectedCategory]
    filteredRef,      \* identity of the array object held by filteredData
    memoDeps,         \* the dependency lists React stored at the last computation
    kpis,             \* useMemo, deps [filteredData]
    categoryData,     \* useMemo, deps [filteredData]
    monthlyTrend,     \* useMemo, deps [filteredData]
    regionalData,     \* useMemo, deps [filteredData]
    channelData,      \* useMemo, deps [filteredData]
    segmentData       \* useMemo, deps [filteredData]

vars == <<rawData, locale, pc, cleanedData, etlLog, activeTab, selectedRegion,
          selectedCategory, filteredData, filteredRef, memoDeps, kpis,
          categoryData, monthlyTrend, regionalData, channelData, segmentData>>

uiVars == <<activeTab, selectedRegion, selectedCategory>>

memoVars == <<filteredData, filteredRef, memoDeps, kpis, categoryData,
              monthlyTrend, regionalData, channelData, segmentData>>

----------------------------------------------------------------------------
(* Bounds *)

\* longest input sequence built from the mixed pool of records
MaxLen == 3

\* longest input sequence built from the revenue-only pool (an outlier needs
\* a working set of at least six records, see DropOutliers)
MaxLongLen == 6

----------------------------------------------------------------------------
(* JavaScript values *)

\* the value of a property that is absent from an object
Absent == "<undefined>"

\* !v for a string-valued field: the empty string and undefined are falsy
Falsy(v) == v = "" \/ v = Absent

\* Math.abs
Abs(n) == IF n < 0 THEN -n ELSE n

Pow10(d) == IF d = 0 THEN 1 ELSE IF d = 1 THEN 10 ELSE 100

\* The string Number.prototype.toFixed(digits) returns for the quotient
\* num / den, as [kind, neg, n, digits]: kind "num" is the decimal string of
\* (neg ? -1 : 1) * n / 10^digits; "NaN" and "Infinity" are those strings.
\* toFixed takes the sign first and rounds the magnitude to the nearest
\* n / 10^digits, the larger n on a tie.
ToFixed(num, den, digits) ==
    IF den = 0
      THEN IF num = 0
             THEN [kind |-> "NaN", neg |-> FALSE, n |-> 0, digits |-> digits]
             ELSE [kind |-> "Infinity", neg |-> num < 0, n |-> 0, digits |-> digits]
      ELSE LET neg == (num < 0) # (den < 0)
               a   == Abs(num) * Pow10(digits)
               b   == Abs(den)
           IN  [kind |-> "num", neg |-> neg, n |-> (2 * a + b) \div (2 * b),
                digits |-> digits]

----------------------------------------------------------------------------
(* Input records *)

Txn(id, date, category, region, channel, segment, quantity, revenue, cost, profit) ==
    [transaction_id |-> id, date |-> date, category |-> category,
     region |-> region, channel |-> channel, customer_segment |-> segment,
     quantity |-> quantity, revenue |-> revenue, cost |-> cost, profit |-> profit]

Mar15 == <<2023, 3, 15>>
Jul15 == <<2023, 7, 15>>

\* "0000-00-00", a date string that new Date cannot parse
BadDate == <<0, 0, 0>>

\* records with every defect the generator injects, and a few it does not
MixedPool ==
    { Txn(1000, Mar15, "Books", "North", "Online", "Regular", 2, 20000, 15000, 5000),
      Txn(1000, Jul15, "Toys", "South", "Store", "Premium", 1, 1050, 800, 250),
      Txn(1001, Jul15, "Toys", "North", "Store", "Premium", 3, 1050, 850, 200),
      Txn(1001, Mar15, "", "South", "Online", "Regular", 1, 3000, 2000, 1000),
      Txn(1002, Mar15, "Books", "South", "Mobile App", Absent, 1, 3000, 2000, 1000),
      Txn(1002, Jul15, "Books", "South", "Mobile App", "Budget", -3, -6000, 4000, 2000),
      Txn(1003, Mar15, "Toys", "North", "Online", "Budget", -2, 500, 300, 200),
      Txn(1003, Jul15, "Books", "North", "Store", "Regular", 1, 0, 50, -50),
      Txn(1004, Mar15, "Toys", "South", "Store", "Regular", 1, 0, 0, 0) }

\* records that differ in revenue only; the id is set by the position
LongPool ==
    { Txn(0, Mar15, "Books", "North", "Online", "Regular", 1, 0, 0, 0),
      Txn(0, Jul15, "Toys", "South", "Store", "Premium", 1, 50, 50, 0),
      Txn(0, Jul15, "Books", "North", "Store", "Budget", -1, -1000, 600, 400) }

SeqsUpTo(S, n) == UNION { [1..k -> S] : k \in 0..n }

LongInputs ==
    { [i \in DOMAIN s |-> [transaction_id |-> 2000 + i] @@ s[i]] :
        s \in UNION { [1..k -> LongPool] : k \in 6..MaxLongLen } }

MixedInputs == SeqsUpTo(MixedPool, MaxLen)

RawInputs == MixedInputs \cup LongInputs

\* a record whose date cannot be parsed, a well-formed record with its id,
\* and a well-formed record with another id
UnparsedPool ==
    { Txn(1000, BadDate, "Books", "North", "Online", "Regular", 2, 20000, 15000, 5000),
      Txn(1000, Mar15, "Books", "North", "Online", "Regular", 2, 20000, 15000, 5000),
      Txn(1001, Jul15, "Toys", "North", "Store", "Premium", 3, 1050, 850, 200) }

UnparsedInputs == SeqsUpTo(UnparsedPool, MaxLen)

Locales == {"en-US", "fr-FR"}

----------------------------------------------------------------------------
(* performETL *)

\* a variant that looks the id up in a Set the callback never fills
IsDuplicate_NeverAdded(uniqueIds, row) == row.transaction_id \in {}

\* uniqueIds.has(row.transaction_id)
IsDuplicate(uniqueIds, row) == row.transaction_id \in uniqueIds

\* a variant that lets a complete record replace an incomplete one: the id of
\* a record without category or customer segment is not added to the Set
RECURSIVE DedupFrom_CompleteWins(_, _, _, _, _)
DedupFrom_CompleteWins(rows, i, uniqueIds, kept, removed) ==
    IF i > Len(rows)
      THEN [rows |-> kept, count |-> removed]
      ELSE IF IsDuplicate(uniqueIds, rows[i])
             THEN DedupFrom_CompleteWins(rows, i + 1, uniqueIds, kept, removed + 1)
             ELSE DedupFrom_CompleteWins(
                    rows, i + 1,
                    IF Falsy(rows[i].category) \/ Falsy(rows[i].customer_segment)
                      THEN uniqueIds ELSE uniqueIds \cup {rows[i].transaction_id},
                    Append(kept, rows[i]), removed)

\* the filter callback of the deduplication stage, run over rows[i..] with
\* the Set and the counter it closes over
RECURSIVE DedupFrom(_, _, _, _, _)
DedupFrom(rows, i, uniqueIds, kept, removed) ==
    IF i > Len(rows)
      THEN [rows |-> kept, count |-> removed]
      ELSE IF IsDuplicate(uniqueIds, rows[i])
             THEN DedupFrom(rows, i + 1, uniqueIds, kept, removed + 1)
             ELSE DedupFrom(rows, i + 1, uniqueIds \cup {rows[i].transaction_id},
                            Append(kept, rows[i]), removed)

\* a variant that tests the category only
IsMissing_CategoryOnly(row) == Falsy(row.category)

\* !row.category || !row.customer_segment
IsMissing(row) == Falsy(row.category) \/ Falsy(row.customer_segment)

\* row.quantity < 0 || row.revenue < 0
IsNegative(row) == row.quantity < 0 \/ row.revenue < 0

\* a variant that replaces the quantity only
FixNegative_QuantityOnly(row) == [quantity |-> Abs(row.quantity)] @@ row

\* { ...row, quantity: Math.abs(row.quantity), revenue: Math.abs(row.revenue) }
FixNegative(row) ==
    [quantity |-> Abs(row.quantity), revenue |-> Abs(row.revenue)] @@ row

\* rows.reduce((sum, row) => sum + row.revenue, 0)
RECURSIVE SumRevenue(_)
SumRevenue(rows) ==
    IF rows = <<>> THEN 0 ELSE SumRevenue(SubSeq(rows, 1, Len(rows) - 1)) + rows[Len(rows)].revenue

\* rows.reduce((sum, row) => sum + row.profit, 0)
RECURSIVE SumProfit(_)
SumProfit(rows) ==
    IF rows = <<>> THEN 0 ELSE SumProfit(SubSeq(rows, 1, Len(rows) - 1)) + rows[Len(rows)].profit

\* a variant that compares with >= in place of >
IsOutlier_AtLeast(row, sum, n) == n # 0 /\ row.revenue * n >= sum * 5

\* row.revenue > avgRevenue * 5, where avgRevenue = sum / n.  With n = 0
\* avgRevenue is 0 / 0 = NaN and every comparison with NaN is false.
IsOutlier(row, sum, n) == n # 0 /\ row.revenue * n > sum * 5

monthOrder ==
    <<"Jan", "Feb", "Mar", "Apr", "May", "Jun", "Jul", "Aug", "Sep", "Oct", "Nov", "Dec">>

\* the short month names of the fr-FR locale, accents left out
frenchMonths ==
    <<"janv.", "fevr.", "mars", "avr.", "mai", "juin", "juil.", "aout", "sept.",
      "oct.", "nov.", "dec.">>

\* new Date(date) is a valid Date; otherwise it is the Invalid Date object
ValidDate(date) == date[2] \in 1..12 /\ date[3] \in 1..31

\* new Date(date).getMonth() of a valid Date: zero-based
GetMonth(date) == date[2] - 1

\* new Date(date).toLocaleString('default', { month: 'short' }); the Invalid
\* Date object gives "Invalid Date" in every locale
MonthShort(loc, date) ==
    IF ~ValidDate(date) THEN "Invalid Date"
    ELSE IF loc = "en-US" THEN monthOrder[GetMonth(date) + 1]
                          ELSE frenchMonths[GetMonth(date) + 1]

\* a variant that leaves out the + 1
Quarter_ZeroBasedMonth(date) == "Q" \o ToString((GetMonth(date) + 2) \div 3)

\* 'Q' + Math.ceil((new Date(date).getMonth() + 1) / 3); getMonth() of the
\* Invalid Date object is NaN
Quarter(date) ==
    IF ~ValidDate(date) THEN "QNaN"
    ELSE "Q" \o ToString((GetMonth(date) + 1 + 2) \div 3)

\* ((row.profit / row.revenue) * 100).toFixed(2)
ProfitMargin(row) == ToFixed(row.profit * 100, row.revenue, 2)

EnrichRow(loc, row) ==
    [profit_margin |-> ProfitMargin(row), month |-> MonthShort(loc, row.date),
     quarter |-> Quarter(row.date)] @@ row

Deduplicate ==
    /\ pc = "dedup"
    /\ LET r == DedupFrom(cleanedData, 1, {}, <<>>, 0)
       IN  /\ cleanedData' = r.rows
           /\ etlLog' = [etlLog EXCEPT !.duplicatesRemoved = @ + r.count]
    /\ pc' = "missing"
    /\ UNCHANGED <<rawData, locale, uiVars, memoVars>>

\* a variant that drops the records and leaves the counter as it is
DropMissing_Uncounted ==
    /\ pc = "missing"
    /\ cleanedData' = SelectSeq(cleanedData, LAMBDA row : ~IsMissing(row))
    /\ pc' = "negatives"
    /\ UNCHANGED <<rawData, locale, etlLog, uiVars, memoVars>>

DropMissing ==
    /\ pc = "missing"
    /\ cleanedData' = SelectSeq(cleanedData, LAMBDA row : ~IsMissing(row))
    /\ etlLog' = [etlLog EXCEPT !.missingValuesHandled =
                    @ + Cardinality({ i \in DOMAIN cleanedData : IsMissing(cleanedData[i]) })]
    /\ pc' = "negatives"
    /\ UNCHANGED <<rawData, locale, uiVars, memoVars>>

\* a variant that assigns to row.quantity and row.revenue: the rows of the
\* working set are the objects of rawData, so the input changes with them
NormalizeNegatives_InPlace ==
    /\ pc = "negatives"
    /\ cleanedData' = [i \in DOMAIN cleanedData |->
                         IF IsNegative(cleanedData[i]) THEN FixNegative(cleanedData[i])
                                                       ELSE cleanedData[i]]
    /\ rawData' = [j \in DOMAIN rawData |->
                     IF /\ IsNegative(rawData[j])
                        /\ \E i \in DOMAIN cleanedData : cleanedData[i] = rawData[j]
                       THEN FixNegative(rawData[j]) ELSE rawData[j]]
    /\ etlLog' = [etlLog EXCEPT !.negativeValuesFixed =
                    @ + Cardinality({ i \in DOMAIN cleanedData : IsNegative(cleanedData[i]) })]
    /\ pc' = "outliers"
    /\ UNCHANGED <<locale, uiVars, memoVars>>

NormalizeNegatives ==
    /\ pc = "negatives"
    /\ cleanedData' = [i \in DOMAIN cleanedData |->
                         IF IsNegative(cleanedData[i]) THEN FixNegative(cleanedData[i])
                                                       ELSE cleanedData[i]]
    /\ etlLog' = [etlLog EXCEPT !.negativeValuesFixed =
                    @ + Cardinality({ i \in DOMAIN cleanedData : IsNegative(cleanedData[i]) })]
    /\ pc' = "outliers"
    /\ UNCHANGED <<rawData, locale, uiVars, memoVars>>

\* a variant whose reduce has no initial value: on an empty array it throws
DropOutliers_ReduceWithoutSeed ==
    /\ pc = "outliers"
    /\ IF cleanedData = <<>>
         THEN /\ pc' = "threw"
              /\ UNCHANGED <<cleanedData, etlLog>>
         ELSE LET sum == SumRevenue(cleanedData)
                  n   == Len(cleanedData)
              IN  /\ cleanedData' = SelectSeq(cleanedData, LAMBDA row : ~IsOutlier(row, sum, n))
                  /\ etlLog' = [etlLog EXCEPT !.outliersRemoved =
                                  @ + Cardinality({ i \in DOMAIN cleanedData :
                                                      IsOutlier(cleanedData[i], sum, n) })]
                  /\ pc' = "enrich"
    /\ UNCHANGED <<rawData, locale, uiVars, memoVars>>

DropOutliers ==
    /\ pc = "outliers"
    /\ LET sum == SumRevenue(cleanedData)
           n   == Len(cleanedData)
       IN  /\ cleanedData' = SelectSeq(cleanedData, LAMBDA row : ~IsOutlier(row, sum, n))
           /\ etlLog' = [etlLog EXCEPT !.outliersRemoved =
                           @ + Cardinality({ i \in DOMAIN cleanedData :
                                               IsOutlier(cleanedData[i], sum, n) })]
    /\ pc' = "enrich"
    /\ UNCHANGED <<rawData, locale, uiVars, memoVars>>

Enrich ==
    /\ pc = "enrich"
    /\ cleanedData' = [i \in DOMAIN cleanedData |-> EnrichRow(locale, cleanedData[i])]
    /\ etlLog' = [etlLog EXCEPT !.recordsAfterCleaning = Len(cleanedData)]
    /\ pc' = "render"
    /\ UNCHANGED <<rawData, locale, uiVars, memoVars>>

----------------------------------------------------------------------------
(* Filter layer, KPI calculator, aggregations *)

\* a variant that joins the two tests with || in place of &&
MatchesFilter_Either(row, region, category) ==
    \/ (region = "All" \/ row.region = region)
    \/ (category = "All" \/ row.category = category)

\* the filter callback of filteredData
MatchesFilter(row, region, category) ==
    /\ (region = "All" \/ row.region = region)
    /\ (category = "All" \/ row.category = category)

\* cleanedData.filter(row => ...)
FilterRows(rows, region, category) ==
    SelectSeq(rows, LAMBDA row : MatchesFilter(row, region, category))

\* totalRevenue.toFixed(0): the sum counts hundredths
FormatTotal(total) == ToFixed(total, 100, 0)

ComputeKpis(rows) ==
    LET totalRevenue      == SumRevenue(rows)
        totalProfit       == SumProfit(rows)
        totalTransactions == Len(rows)
    IN  [totalRevenue      |-> FormatTotal(totalRevenue),
         totalProfit       |-> FormatTotal(totalProfit),
         totalTransactions |-> totalTransactions,
         avgOrderValue     |-> ToFixed(totalRevenue, 100 * totalTransactions, 2),
         profitMargin      |-> ToFixed(totalProfit * 100, totalRevenue, 2)]

\* index of the group with the given key in an object's insertion order, 0 if none
KeyIndex(groups, keyField, key) ==
    IF \E k \in DOMAIN groups : groups[k][keyField] = key
      THEN CHOOSE k \in DOMAIN groups : groups[k][keyField] = key
      ELSE 0

\* the property of a row that each aggregation groups by
RowKey(dim, row) ==
    CASE dim = "category" -> row.category
      [] dim = "month"    -> row.month
      [] dim = "region"   -> row.region
      [] dim = "channel"  -> row.channel
      [] dim = "segment"  -> row.customer_segment

\* the property of a group that holds its key
KeyField(dim) == IF dim = "channel" THEN "name" ELSE dim

\* the object each aggregation stores for a key it has not seen
Fresh(dim, row) ==
    CASE dim = "category" -> [category |-> row.category, revenue |-> 0, profit |-> 0,
                              transactions |-> 0]
      [] dim = "month"    -> [month |-> row.month, revenue |-> 0, profit |-> 0]
      [] dim = "region"   -> [region |-> row.region, revenue |-> 0, profit |-> 0]
      [] dim = "channel"  -> [name |-> row.channel, value |-> 0]
      [] dim = "segment"  -> [segment |-> row.customer_segment, revenue |-> 0,
                              customers |-> 0, avgValue |-> <<0, 1>>]

\* the += statements of each aggregation
Accumulate(dim, g, row) ==
    CASE dim = "category" -> [g EXCEPT !.revenue = @ + row.revenue,
                                       !.profit = @ + row.profit,
                                       !.transactions = @ + 1]
      [] dim = "month"    -> [g EXCEPT !.revenue = @ + row.revenue, !.profit = @ + row.profit]
      [] dim = "region"   -> [g EXCEPT !.revenue = @ + row.revenue, !.profit = @ + row.profit]
      [] dim = "channel"  -> [g EXCEPT !.value = @ + row.revenue]
      [] dim = "segment"  -> [g EXCEPT !.revenue = @ + row.revenue, !.customers = @ + 1]

\* filteredData.forEach(row => { if (!grouped[key]) grouped[key] = fresh;
\*                               grouped[key] += row }); Object.values(grouped)
RECURSIVE GroupBy(_, _)
GroupBy(rows, dim) ==
    IF rows = <<>>
      THEN <<>>
      ELSE LET row    == rows[Len(rows)]
               groups == GroupBy(SubSeq(rows, 1, Len(rows) - 1), dim)
               k      == KeyIndex(groups, KeyField(dim), RowKey(dim, row))
           IN  IF k = 0
                 THEN Append(groups, Accumulate(dim, Fresh(dim, row), row))
                 ELSE [groups EXCEPT ![k] = Accumulate(dim, @, row)]

\* the comparator (a, b) => b.revenue - a.revenue puts a before b
ComesBefore(a, b) == a.revenue >= b.revenue

\* Array.prototype.sort with that comparator: stable, so a row is placed
\* after every row already placed that the comparator does not put behind it
RECURSIVE SortByRevenue(_)
SortByRevenue(groups) ==
    IF groups = <<>>
      THEN <<>>
      ELSE LET x      == groups[Len(groups)]
               sorted == SortByRevenue(SubSeq(groups, 1, Len(groups) - 1))
               ahead  == Cardinality({ k \in DOMAIN sorted : ComesBefore(sorted[k], x) })
           IN  SubSeq(sorted, 1, ahead) \o <<x>> \o SubSeq(sorted, ahead + 1, Len(sorted))

ComputeCategoryData(rows) == SortByRevenue(GroupBy(rows, "category"))

\* a variant that returns Object.values(grouped), as regionalData does
ComputeMonthlyTrend_GroupsOnly(rows) == GroupBy(rows, "month")

\* monthOrder.map(m => grouped[m] || { month: m, revenue: 0, profit: 0 })
ComputeMonthlyTrend(rows) ==
    LET grouped == GroupBy(rows, "month")
    IN  [i \in DOMAIN monthOrder |->
           LET k == KeyIndex(grouped, "month", monthOrder[i])
           IN  IF k # 0 THEN grouped[k]
                        ELSE [month |-> monthOrder[i], revenue |-> 0, profit |-> 0]]

ComputeRegionalData(rows) == GroupBy(rows, "region")

ComputeChannelData(rows) == GroupBy(rows, "channel")

\* seg.avgValue = seg.revenue / seg.customers, kept as the pair it is formed from
ComputeSegmentData(rows) ==
    LET grouped == GroupBy(rows, "segment")
    IN  [k \in DOMAIN grouped |->
           [grouped[k] EXCEPT !.avgValue = <<grouped[k].revenue, grouped[k].customers>>]]

----------------------------------------------------------------------------
(* The component: hooks and handlers *)

\* the options of the two selectors that the handlers are run with
RegionOptions == {"All", "North", "South"}
CategoryOptions == {"All", "Books", "Toys"}
\* 'analysis' and 'insights' show the same filter panel as 'overview'
Tabs == {"overview", "etl"}

\* a variant that leaves selectedCategory out of the dependency list
FilteredDeps_NoCategory(region, category) == <<"cleanedData", region>>

\* the dependency list of filteredData; cleanedData is computed once, at
\* mount, and is the same object in every later render
FilteredDeps(region, category) == <<"cleanedData", region, category>>

\* The identity of an array that the filter callback creates.  React compares
\* a dependency with its value in the previous render only, and two renders in
\* a row that both create the array differ in the selector values, so the
\* array is named by the selector values of the render that created it.
NewArray(deps) == deps

\* the dependency list [filteredData] of kpis and of the five aggregations
DownstreamDeps(ref) == <<ref>>

\* useMemo: the stored value is kept when the dependency list is unchanged
UseMemo(storedDeps, deps, stored, computed) ==
    IF deps = storedDeps THEN stored ELSE computed

\* one render of the mounted component with the given selector values
Render(region, category) ==
    LET fdeps   == FilteredDeps(region, category)
        rows    == UseMemo(memoDeps.filteredData, fdeps, filteredData,
                           FilterRows(cleanedData, region, category))
        ref     == UseMemo(memoDeps.filteredData, fdeps, filteredRef, NewArray(fdeps))
        ddeps   == DownstreamDeps(ref)
    IN  /\ filteredData' = rows
        /\ filteredRef' = ref
        /\ kpis' = UseMemo(memoDeps.kpis, ddeps, kpis, ComputeKpis(rows))
        /\ categoryData' = UseMemo(memoDeps.categoryData, ddeps, categoryData,
                                   ComputeCategoryData(rows))
        /\ monthlyTrend' = UseMemo(memoDeps.monthlyTrend, ddeps, monthlyTrend,
                                   ComputeMonthlyTrend(rows))
        /\ regionalData' = UseMemo(memoDeps.regionalData, ddeps, regionalData,
                                   ComputeRegionalData(rows))
        /\ channelData' = UseMemo(memoDeps.channelData, ddeps, channelData,
                                  ComputeChannelData(rows))
        /\ segmentData' = UseMemo(memoDeps.segmentData, ddeps, segmentData,
                                  ComputeSegmentData(rows))
        /\ memoDeps' = [filteredData |-> fdeps, kpis |-> ddeps, categoryData |-> ddeps,
                        monthlyTrend |-> ddeps, regionalData |-> ddeps,
                        channelData |-> ddeps, segmentData |-> ddeps]

NoDeps ==
    [filteredData |-> <<>>, kpis |-> <<>>, categoryData |-> <<>>, monthlyTrend |-> <<>>,
     regionalData |-> <<>>, channelData |-> <<>>, segmentData |-> <<>>]

\* the state when performETL has run lines 66-74 of the first render
InitWith(inputs) ==
    /\ rawData \in inputs
    /\ locale \in Locales
    /\ pc = "dedup"
    /\ cleanedData = rawData
    /\ etlLog = [totalRecords |-> Len(rawData), duplicatesRemoved |-> 0,
                 missingValuesHandled |-> 0, negativeValuesFixed |-> 0,
                 outliersRemoved |-> 0, recordsAfterCleaning |-> 0]
    /\ activeTab = "overview"
    /\ selectedRegion = "All"
    /\ selectedCategory = "All"
    /\ filteredData = <<>>
    /\ filteredRef = <<>>
    /\ memoDeps = NoDeps
    /\ kpis = <<>>
    /\ categoryData = <<>>
    /\ monthlyTrend = <<>>
    /\ regionalData = <<>>
    /\ channelData = <<>>
    /\ segmentData = <<>>

\* the rest of the first render: no hook has a stored value yet
Mount ==
    /\ pc = "render"
    /\ Render(selectedRegion, selectedCategory)
    /\ pc' = "mounted"
    /\ UNCHANGED <<rawData, locale, cleanedData, etlLog, uiVars>>

SetActiveTab(tab) ==
    /\ pc = "mounted"
    /\ activeTab' = tab
    /\ Render(selectedRegion, selectedCategory)
    /\ UNCHANGED <<rawData, locale, pc, cleanedData, etlLog, selectedRegion, selectedCategory>>

\* the filter panel is rendered only when activeTab !== 'etl'
SetSelectedRegion(region) ==
    /\ pc = "mounted"
    /\ activeTab # "etl"
    /\ selectedRegion' = region
    /\ Render(region, selectedCategory)
    /\ UNCHANGED <<rawData, locale, pc, cleanedData, etlLog, activeTab, selectedCategory>>

SetSelectedCategory(category) ==
    /\ pc = "mounted"
    /\ activeTab # "etl"
    /\ selectedCategory' = category
    /\ Render(selectedRegion, category)
    /\ UNCHANGED <<rawData, locale, pc, cleanedData, etlLog, activeTab, selectedRegion>>

Next ==
    \/ Deduplicate
    \/ DropMissing
    \/ NormalizeNegatives
    \/ DropOutliers
    \/ Enrich
    \/ Mount
    \/ \E tab \in Tabs : SetActiveTab(tab)
    \/ \E region \in RegionOptions : SetSelectedRegion(region)
    \/ \E category \in CategoryOptions : SetSelectedCategory(category)

\* the component, on the inputs of the mixed pool
Init == InitWith(MixedInputs)

Spec == Init /\ [][Next]_vars

\* performETL alone, on the inputs of both pools
InitETL == InitWith(RawInputs)

NextETL ==
    \/ Deduplicate
    \/ DropMissing
    \/ NormalizeNegatives
    \/ DropOutliers
    \/ Enrich

SpecETL == InitETL /\ [][NextETL]_vars

\* performETL on inputs that hold a record whose date was never parsed
InitHandOff == InitWith(UnparsedInputs)

SpecHandOff == InitHandOff /\ [][NextETL]_vars

----------------------------------------------------------------------------
(* Properties of performETL, stated over the raw input *)

\* no earlier record of the input has the id of record i
FirstOccurrence(raw, i) ==
    \A j \in 1..(i - 1) : raw[j].transaction_id # raw[i].transaction_id

\* the positions of the input that deduplication is to keep
KeptIdx(raw) == { i \in DOMAIN raw : FirstOccurrence(raw, i) }

\* the k-th smallest element of a set of positions
Nth(S, k) == CHOOSE i \in S : Cardinality({ j \in S : j <= i }) = k

\* the records of raw at the positions S, in input order
Restrict(raw, S) == [k \in 1..Cardinality(S) |-> raw[Nth(S, k)]]

UniqueIds(rows) ==
    \A i, j \in DOMAIN rows :
        rows[i].transaction_id = rows[j].transaction_id => i = j

\* C1: deduplication keeps exactly the first record of each transaction id,
\* in input order; no two records of any later working set or of the cleaned
\* output share an id; duplicatesRemoved is the number of input records whose
\* id occurred earlier in the input.
C1_DedupKeepsFirst ==
    /\ pc = "missing" => cleanedData = Restrict(rawData, KeptIdx(rawData))
    /\ pc # "dedup" =>
         /\ UniqueIds(cleanedData)
         /\ etlLog.duplicatesRemoved = Len(rawData) - Cardinality(KeptIdx(rawData))

\* a duplicate that differs from the record it repeats was dropped from
\* between its original and a later record, both kept
C1_Witness ==
    /\ pc = "missing"
    /\ Len(rawData) = 3
    /\ rawData[2].transaction_id = rawData[1].transaction_id
    /\ rawData[2] # rawData[1]
    /\ cleanedData = <<rawData[1], rawData[3]>>
    /\ etlLog.duplicatesRemoved = 1

\* a record that has both a category and a customer segment
Complete(row) ==
    /\ row.category \notin {"", Absent}
    /\ row.customer_segment \notin {"", Absent}

\* the positions of the input that reach the normalization stage
WorkIdx(raw) == { i \in KeptIdx(raw) : Complete(raw[i]) }

\* C4: the missing-value stage drops every record whose category or
\* customer_segment is empty or absent and leaves the other records as they
\* are; every record of the cleaned output has both fields non-empty;
\* missingValuesHandled is the number of records this stage dropped.
C4_MissingDropped ==
    /\ pc = "negatives" => cleanedData = Restrict(rawData, WorkIdx(rawData))
    /\ pc \in {"negatives", "outliers", "enrich", "render"} =>
         /\ \A k \in DOMAIN cleanedData : Complete(cleanedData[k])
         /\ etlLog.missingValuesHandled =
              Cardinality(KeptIdx(rawData)) - Cardinality(WorkIdx(rawData))

\* one record with an empty category and one with no customer segment were
\* dropped, a complete record was kept
C4_Witness ==
    /\ pc = "negatives"
    /\ Len(rawData) = 3
    /\ \E i \in DOMAIN rawData : FirstOccurrence(rawData, i) /\ rawData[i].category = ""
    /\ \E i \in DOMAIN rawData :
          FirstOccurrence(rawData, i) /\ rawData[i].customer_segment = Absent
    /\ etlLog.missingValuesHandled = 2
    /\ Len(cleanedData) = 1

\* quantity or revenue below zero
Negative(row) == row.quantity < 0 \/ row.revenue < 0

Magnitude(n) == IF n >= 0 THEN n ELSE 0 - n

\* C2: a record that reaches the normalization stage with quantity < 0 or
\* revenue < 0 leaves it with both replaced by their absolute values and with
\* its cost and profit as they were; any other record leaves it unchanged;
\* negativeValuesFixed counts the records replaced, once each; every record of
\* the cleaned output has quantity >= 0 and revenue >= 0.
C2_NegativesNormalized ==
    /\ pc = "outliers" =>
         /\ Len(cleanedData) = Cardinality(WorkIdx(rawData))
         /\ \A k \in DOMAIN cleanedData :
              LET src == rawData[Nth(WorkIdx(rawData), k)]
                  row == cleanedData[k]
              IN  IF Negative(src)
                    THEN /\ row.quantity = Magnitude(src.quantity)
                         /\ row.revenue = Magnitude(src.revenue)
                         /\ row.cost = src.cost
                         /\ row.profit = src.profit
                    ELSE row = src
    /\ pc \in {"outliers", "enrich", "render"} =>
         /\ \A k \in DOMAIN cleanedData :
              cleanedData[k].quantity >= 0 /\ cleanedData[k].revenue >= 0
         /\ etlLog.negativeValuesFixed =
              Cardinality({ i \in WorkIdx(rawData) : Negative(rawData[i]) })

\* a record with a negative revenue and one with a negative quantity only
\* were replaced, a third record passed through
C2_Witness ==
    /\ pc = "outliers"
    /\ Len(cleanedData) = 3
    /\ \E i \in DOMAIN rawData : rawData[i].revenue < 0 /\ cleanedData[i].revenue > 0
    /\ \E i \in DOMAIN rawData :
          rawData[i].quantity < 0 /\ rawData[i].revenue > 0 /\ cleanedData[i].quantity > 0
    /\ \E i \in DOMAIN rawData : cleanedData[i] = rawData[i]
    /\ etlLog.negativeValuesFixed = 2

\* the sum of the normalized revenue of the input records at the positions S
RECURSIVE WorkRevenue(_, _)
WorkRevenue(raw, S) ==
    IF S = {} THEN 0
    ELSE LET i == CHOOSE j \in S : TRUE
         IN  Magnitude(raw[i].revenue) + WorkRevenue(raw, S \ {i})

\* revenue exceeds 5 times the mean total / n
ExceedsFiveMeans(revenue, total, n) == revenue * n > 5 * total

\* C3: with the mean of revenue taken over the working set that reaches the
\* outlier stage (the deduplicated, complete records, normalized), no record
\* of the cleaned output has revenue above 5 times that mean, and
\* outliersRemoved is the number of records of that working set above it.
C3_OutliersDropped ==
    pc \in {"enrich", "render"} =>
      LET W     == WorkIdx(rawData)
          n     == Cardinality(W)
          total == WorkRevenue(rawData, W)
      IN  /\ \A k \in DOMAIN cleanedData :
               ~ExceedsFiveMeans(cleanedData[k].revenue, total, n)
          /\ etlLog.outliersRemoved =
               Cardinality({ i \in W :
                               ExceedsFiveMeans(Magnitude(rawData[i].revenue), total, n) })

\* an outlier was dropped from a working set whose mean differs from the
\* mean of the raw input (a revenue was negative) and from the mean of the
\* survivors (a survivor has revenue above zero)
C3_Witness ==
    /\ pc = "enrich"
    /\ etlLog.outliersRemoved = 1
    /\ etlLog.negativeValuesFixed = 1
    /\ Len(cleanedData) = 5
    /\ \E k \in DOMAIN cleanedData : cleanedData[k].revenue > 0

\* C6: enrichment gives a record with revenue = 0 a profit_margin that is
\* null or undefined, and a record with revenue # 0 the value
\* profit / revenue * 100 rounded to two decimals.
C6_MarginUndefinedAtZeroRevenue ==
    pc = "render" =>
      \A k \in DOMAIN cleanedData :
        LET row == cleanedData[k]
            pm  == row.profit_margin
        IN  IF row.revenue = 0
              THEN pm.kind \in {"null", "undefined"}
              ELSE /\ pm.kind = "num"
                   /\ pm.digits = 2
                   /\ 2 * Magnitude(pm.n * row.revenue - 10000 * Magnitude(row.profit))
                        <= row.revenue

----------------------------------------------------------------------------
(* Properties of the filter layer, the KPIs and the aggregations *)

\* a formatted number that reads as zero
IsZero(str) == str.kind = "num" /\ str.n = 0

\* C5: when the filtered set is empty, totalRevenue, totalProfit,
\* totalTransactions, avgOrderValue and the profit margin are all zero, and
\* none of them is a non-numeric value.
C5_EmptyKpisAreZero ==
    (pc = "mounted" /\ filteredData = <<>>) =>
      /\ IsZero(kpis.totalRevenue)
      /\ IsZero(kpis.totalProfit)
      /\ kpis.totalTransactions = 0
      /\ IsZero(kpis.avgOrderValue)
      /\ IsZero(kpis.profitMargin)

\* the sum of a numeric field over the rows at the positions S
RECURSIVE SumAt(_, _, _)
SumAt(rows, S, field) ==
    IF S = {} THEN 0
    ELSE LET i == CHOOSE j \in S : TRUE
         IN  rows[i][field] + SumAt(rows, S \ {i}, field)

\* the number a formatted number denotes, in hundredths; a string that is
\* not a number denotes none
Hundredths(str) ==
    IF str.kind # "num" THEN {}
    ELSE LET m == IF str.digits = 0 THEN 100 * str.n ELSE str.n
         IN  {IF str.neg THEN 0 - m ELSE m}

\* C7: the category aggregation has one row per category present in the
\* filtered set, ordered by summed revenue descending, and the revenue of its
\* rows sums to the totalRevenue KPI of the same filtered set exactly.
C7_CategoryPartitionSum ==
    pc = "mounted" =>
      /\ { categoryData[k].category : k \in DOMAIN categoryData }
           = { filteredData[i].category : i \in DOMAIN filteredData }
      /\ \A j, k \in DOMAIN categoryData :
           /\ categoryData[j].category = categoryData[k].category => j = k
           /\ j < k => categoryData[j].revenue >= categoryData[k].revenue
      /\ Hundredths(kpis.totalRevenue)
           = {SumAt(categoryData, DOMAIN categoryData, "revenue")}

\* C8: after any sequence of selections and tab changes the filtered set,
\* the KPIs and the five aggregations are the ones computed from the cleaned
\* set under the selectors' current values.
C8_NothingStale ==
    pc = "mounted" =>
      /\ filteredData = FilterRows(cleanedData, selectedRegion, selectedCategory)
      /\ kpis = ComputeKpis(filteredData)
      /\ categoryData = ComputeCategoryData(filteredData)
      /\ monthlyTrend = ComputeMonthlyTrend(filteredData)
      /\ regionalData = ComputeRegionalData(filteredData)
      /\ channelData = ComputeChannelData(filteredData)
      /\ segmentData = ComputeSegmentData(filteredData)

\* both selectors were moved off 'All', then the tab was changed; the
\* selection keeps some records and drops others
C8_Witness ==
    /\ pc = "mounted"
    /\ selectedRegion = "North"
    /\ selectedCategory = "Toys"
    /\ activeTab = "etl"
    /\ filteredData # <<>>
    /\ Len(filteredData) < Len(cleanedData)

\* C9: the filtered set is the cleaned records, in cleaned-set order, whose
\* region the region selector admits ('All' or equal) and whose category the
\* category selector admits; with both selectors at 'All' it is the whole
\* cleaned set; filtering it again with the same selectors returns it.
C9_FilterExact ==
    pc = "mounted" =>
      LET Admitted(row) ==
              /\ selectedRegion = "All" \/ row.region = selectedRegion
              /\ selectedCategory = "All" \/ row.category = selectedCategory
          K == { i \in DOMAIN cleanedData : Admitted(cleanedData[i]) }
      IN  /\ filteredData = Restrict(cleanedData, K)
          /\ (selectedRegion = "All" /\ selectedCategory = "All") => filteredData = cleanedData
          /\ FilterRows(filteredData, selectedRegion, selectedCategory) = filteredData

\* two records were kept around one that the region selector admits and
\* the category selector does not
C9_Witness ==
    /\ pc = "mounted"
    /\ selectedRegion = "North"
    /\ selectedCategory = "Books"
    /\ Len(cleanedData) = 3
    /\ cleanedData[2].region = "North"
    /\ cleanedData[2].category = "Toys"
    /\ filteredData = <<cleanedData[1], cleanedData[3]>>

CalendarMonths ==
    <<"Jan", "Feb", "Mar", "Apr", "May", "Jun", "Jul", "Aug", "Sep", "Oct", "Nov", "Dec">>

\* C10: when every record of the filtered set carries a month of the
\* calendar list, the month aggregation has 12 rows in the order Jan..Dec,
\* each with the sums of revenue and profit of the records of its month, zero
\* for a month without records.
C10_TwelveMonths ==
    (/\ pc = "mounted"
     /\ \A i \in DOMAIN filteredData :
          \E m \in DOMAIN CalendarMonths : filteredData[i].month = CalendarMonths[m]) =>
      /\ Len(monthlyTrend) = 12
      /\ \A m \in 1..12 :
           LET S == { i \in DOMAIN filteredData : filteredData[i].month = CalendarMonths[m] }
           IN  /\ monthlyTrend[m].month = CalendarMonths[m]
               /\ monthlyTrend[m].revenue = SumAt(filteredData, S, "revenue")
               /\ monthlyTrend[m].profit = SumAt(filteredData, S, "profit")

\* the filtered set holds Mar and Jul records only, two of them in Jul: the
\* rows of the other ten months are zero
C10_Witness ==
    /\ pc = "mounted"
    /\ Len(filteredData) = 3
    /\ { filteredData[i].month : i \in DOMAIN filteredData } = {"Mar", "Jul"}
    /\ monthlyTrend[3].revenue > 0
    /\ monthlyTrend[7].revenue = 2100
    /\ \A m \in (1..12) \ {3, 7} : monthlyTrend[m].revenue = 0 /\ monthlyTrend[m].profit = 0

----------------------------------------------------------------------------
(* Further properties of performETL *)

\* C11: when no record reaches the outlier stage, performETL runs every
\* stage to its end (no stage stops it), the outlier stage drops nothing and
\* the cleaned set is empty; on an empty input every counter of the report
\* is 0.
C11_EmptyWorkingSet ==
    WorkIdx(rawData) = {} =>
      /\ pc # "render" => ENABLED NextETL
      /\ pc \in {"enrich", "render"} =>
           /\ cleanedData = <<>>
           /\ etlLog.outliersRemoved = 0
      /\ (pc = "render" /\ rawData = <<>>) =>
           etlLog = [totalRecords |-> 0, duplicatesRemoved |-> 0,
                     missingValuesHandled |-> 0, negativeValuesFixed |-> 0,
                     outliersRemoved |-> 0, recordsAfterCleaning |-> 0]

\* performETL has returned from an empty input
C11_Witness ==
    /\ pc = "render"
    /\ rawData = <<>>
    /\ cleanedData = <<>>
    /\ etlLog.totalRecords = 0

\* the quarter of a month number: 'Q' followed by ceil(m / 3)
QuarterOfMonth(m) ==
    LET q == CHOOSE k \in 1..4 : 3 * k >= m /\ 3 * (k - 1) < m
    IN  "Q" \o ToString(q)

\* C12: the enrichment stage returns as many records as it is given, in the
\* same order and with every field they had unchanged, each with the added
\* fields profit_margin, month and quarter, the quarter being 'Q' followed by
\* ceil(month number / 3); recordsAfterCleaning is the length of the
\* returned set.
C12_EnrichOnlyAdds ==
    [][pc = "enrich" =>
         /\ Len(cleanedData') = Len(cleanedData)
         /\ \A k \in DOMAIN cleanedData :
              /\ DOMAIN cleanedData'[k]
                   = DOMAIN cleanedData[k] \cup {"profit_margin", "month", "quarter"}
              /\ \A f \in DOMAIN cleanedData[k] : cleanedData'[k][f] = cleanedData[k][f]
              /\ cleanedData'[k].quarter = QuarterOfMonth(cleanedData[k].date[2])
         /\ etlLog'.recordsAfterCleaning = Len(cleanedData')]_vars

\* a first-quarter and a third-quarter record were enriched
C12_Witness ==
    /\ pc = "render"
    /\ Len(cleanedData) = 3
    /\ etlLog.recordsAfterCleaning = 3
    /\ \E k \in DOMAIN cleanedData : cleanedData[k].quarter = "Q1"
    /\ \E k \in DOMAIN cleanedData : cleanedData[k].quarter = "Q3"
    /\ \A k \in DOMAIN cleanedData : "profit_margin" \in DOMAIN cleanedData[k]

\* a raw record whose date field is not a calendar date
Malformed(row) == ~(row.date[2] \in 1..12 /\ row.date[3] \in 1..31)

\* the positions of the input whose records can be parsed
WellFormedIdx(raw) == { i \in DOMAIN raw : ~Malformed(raw[i]) }

ReportCounters ==
    {"totalRecords", "duplicatesRemoved", "missingValuesHandled", "negativeValuesFixed",
     "outliersRemoved", "recordsAfterCleaning"}

\* C13: a raw record whose fields cannot be parsed is rejected before
\* deduplication: it is not in the cleaned set, a later well-formed record
\* with its id is not a duplicate of it, and the report carries a count of
\* the rejected records.
C13_MalformedRejected ==
    pc = "render" =>
      /\ \A k \in DOMAIN cleanedData : ~Malformed(cleanedData[k])
      /\ etlLog.duplicatesRemoved =
           Cardinality({ i \in WellFormedIdx(rawData) :
                           \E j \in WellFormedIdx(rawData) :
                              j < i /\ rawData[j].transaction_id = rawData[i].transaction_id })
      /\ WellFormedIdx(rawData) # DOMAIN rawData =>
           \E f \in DOMAIN etlLog \ ReportCounters :
              etlLog[f] = Len(rawData) - Cardinality(WellFormedIdx(rawData))

\* C15: the report accounts for every input record: totalRecords is the sum
\* of duplicatesRemoved, missingValuesHandled, outliersRemoved and
\* recordsAfterCleaning, and negativeValuesFixed is at most outliersRemoved
\* plus recordsAfterCleaning.
C15_ReportAccounts ==
    pc = "render" =>
      /\ etlLog.totalRecords = Len(rawData)
      /\ etlLog.totalRecords =
           etlLog.duplicatesRemoved + etlLog.missingValuesHandled
             + etlLog.outliersRemoved + etlLog.recordsAfterCleaning
      /\ etlLog.negativeValuesFixed <= etlLog.outliersRemoved + etlLog.recordsAfterCleaning

\* a duplicate and an incomplete record were dropped and the survivor was
\* normalized
C15_Witness ==
    /\ pc = "render"
    /\ etlLog.totalRecords = 3
    /\ etlLog.duplicatesRemoved = 1
    /\ etlLog.missingValuesHandled = 1
    /\ etlLog.negativeValuesFixed = 1
    /\ etlLog.recordsAfterCleaning = 1

\* the ids whose first record in the input lacks a category or a segment
LostIds(raw) ==
    { raw[i].transaction_id : i \in { j \in KeptIdx(raw) : ~Complete(raw[j]) } }

\* C16: an id whose first record in the input has an empty category or
\* customer segment has no record in the cleaned output, whatever records
\* with that id follow; each of those is counted in duplicatesRemoved and the
\* first one in missingValuesHandled.
C16_FirstIncompleteLosesId ==
    pc \in {"negatives", "outliers", "enrich", "render"} =>
      /\ \A k \in DOMAIN cleanedData : cleanedData[k].transaction_id \notin LostIds(rawData)
      /\ etlLog.missingValuesHandled = Cardinality(LostIds(rawData))
      /\ etlLog.duplicatesRemoved >=
           Cardinality({ i \in DOMAIN rawData :
                           /\ rawData[i].transaction_id \in LostIds(rawData)
                           /\ ~FirstOccurrence(rawData, i) })

\* an incomplete record came first and a complete record with its id later:
\* neither is in the cleaned output
C16_Witness ==
    /\ pc = "render"
    /\ Len(rawData) = 3
    /\ ~Complete(rawData[1])
    /\ rawData[3].transaction_id = rawData[1].transaction_id
    /\ Complete(rawData[3])
    /\ rawData[2].transaction_id # rawData[1].transaction_id
    /\ Len(cleanedData) = 1
    /\ cleanedData[1].transaction_id = rawData[2].transaction_id
    /\ etlLog.duplicatesRemoved = 1
    /\ etlLog.missingValuesHandled = 1

----------------------------------------------------------------------------
(* Frame *)

\* C14: no step changes the raw input or any of its records, and once
\* performETL has returned, no step (filter, KPIs, aggregations, in any
\* render) changes the cleaned set or the report.
C14_InputsNeverChanged ==
    [][/\ rawData' = rawData
       /\ pc \in {"render", "mounted"} => (cleanedData' = cleanedData /\ etlLog' = etlLog)]_vars

\* a record was normalized, the component was mounted and a filter chosen:
\* the input still has the negative values and the cleaned set the
\* replaced ones
C14_Witness ==
    /\ pc = "mounted"
    /\ selectedRegion = "South"
    /\ etlLog.negativeValuesFixed = 1
    /\ \E i \in DOMAIN rawData, k \in DOMAIN cleanedData :
          /\ rawData[i].transaction_id = cleanedData[k].transaction_id
          /\ rawData[i].revenue < 0
          /\ cleanedData[k].revenue = 0 - rawData[i].revenue
    /\ filteredData # <<>>

====
